---- MODULE Spec2Model ----
(***************************************************************************)
(* A model of src/transformers/JSXTransformer.ts: the JSX-to-createElement *)
(* token transformer of sucrase, its lazy line counter, its file-name      *)
(* binding and its three pure text formatters.                             *)
(*                                                                         *)
(* Text is modelled as a sequence of one-character strings.  Three         *)
(* specifications share the module:                                        *)
(*   SpecText  applies the pure formatters to every text up to MaxTextLen, *)
(*   SpecLine  drives getLineNumberForIndex with arbitrary offsets,        *)
(*   Spec      runs one whole file pass over a token buffer.               *)
(***************************************************************************)
EXTENDS Integers, Sequences, FiniteSets, TLC

VARIABLES
    text,            \* SpecText: the argument handed to a formatter
    textFn,          \* SpecText: which formatter has been applied ("none" before)
    textResult,      \* SpecText: the string the formatter returned
    code,            \* tokens.code: the source text of the file
    lastIndex,       \* JSXTransformer.lastIndex
    lastLineNumber,  \* JSXTransformer.lastLineNumber
    lineCalls,       \* log of the getLineNumberForIndex calls: argument and result
    tokens,          \* the token buffer of the file
    tokenIndex,      \* the token cursor (0-based, as in the source)
    resultCode,      \* the text emitted so far, one entry per emitting call
    filePath,        \* JSXTransformer.filePath
    reactName,       \* what importProcessor.getIdentifierReplacement("React") returns
    usedNames,       \* the identifiers the name manager knows to be taken
    claimCalls,      \* log of the nameManager.claimFreeName results
    filenameVarName, \* JSXTransformer.filenameVarName
    stack,           \* the call stack of the pass, innermost frame last
    status,          \* "running", "done" or "failed" (an Error has been thrown)
    error,           \* the message of the Error thrown
    output           \* what the pass returns to its caller

textVars == <<text, textFn, textResult>>
lineVars == <<code, lastIndex, lastLineNumber, lineCalls>>
passVars == <<tokens, tokenIndex, resultCode, filePath, reactName, usedNames,
              claimCalls, filenameVarName, stack, status, error, output>>
vars == <<textVars, lineVars, passVars>>

\* null of the source; no identifier or path has this text
Null == "<null>"
NoOutput == [produced |-> FALSE, prefix |-> <<>>, code |-> <<>>]

\* the values of the variables a specification does not use
IdleText == text = <<>> /\ textFn = "none" /\ textResult = <<>>
IdleLine == code = <<>> /\ lastIndex = 0 /\ lastLineNumber = 1 /\ lineCalls = <<>>
IdlePass ==
    /\ tokens = <<>> /\ tokenIndex = 0 /\ resultCode = <<>>
    /\ filePath = <<Null>> /\ reactName = Null /\ usedNames = {} /\ claimCalls = <<>>
    /\ filenameVarName = Null /\ stack = <<>> /\ status = "idle" /\ error = ""
    /\ output = NoOutput

(***************************************************************************)
(* Bounds                                                                  *)
(***************************************************************************)
MaxTextLen == 6
MaxCodeLen == 4
MaxLineCalls == 3
MaxItems == 3
MaxValueLen == 3

(***************************************************************************)
(* Characters                                                              *)
(***************************************************************************)
Space == " "
Tab == "\t"
Newline == "\n"
DQuote == "\""
Backslash == "\\"

\* the characters a formatter argument is drawn from: the three whitespace
\* characters the formatters tell apart, a plain character, and a character
\* JSON.stringify has to escape
TextChars == {Space, Tab, Newline, "a", DQuote}

RECURSIVE SeqsUpTo(_, _)
SeqsUpTo(S, n) ==
    IF n = 0 THEN {<<>>}
    ELSE LET shorter == SeqsUpTo(S, n - 1)
         IN shorter \cup {Append(s, c) : s \in {t \in shorter : Len(t) = n - 1}, c \in S}

Texts == SeqsUpTo(TextChars, MaxTextLen)

RECURSIVE Repeat(_, _)
Repeat(c, n) == IF n <= 0 THEN <<>> ELSE <<c>> \o Repeat(c, n - 1)

RECURSIVE Count(_, _)
\* the number of positions of s holding a character of the set cs
Count(s, cs) ==
    IF s = <<>> THEN 0
    ELSE (IF Head(s) \in cs THEN 1 ELSE 0) + Count(Tail(s), cs)

(***************************************************************************)
(* JSON.stringify of a string: quotes around it, and the escapes of the    *)
(* characters of TextChars that need one.                                  *)
(***************************************************************************)
JSONEscapeChar(c) ==
    IF c = DQuote THEN <<Backslash, DQuote>>
    ELSE IF c = Backslash THEN <<Backslash, Backslash>>
    ELSE IF c = Newline THEN <<Backslash, "n">>
    ELSE IF c = Tab THEN <<Backslash, "t">>
    ELSE <<c>>

RECURSIVE JSONEscape(_)
JSONEscape(s) ==
    IF s = <<>> THEN <<>> ELSE JSONEscapeChar(Head(s)) \o JSONEscape(Tail(s))

JSONStringify(s) == <<DQuote>> \o JSONEscape(s) \o <<DQuote>>

(***************************************************************************)
(* formatJSXTextLiteral, lines 215-244                                     *)
(***************************************************************************)
TextLiteralInitAtLineStart ==
    [result |-> <<>>, whitespace |-> <<>>,
     isInInitialLineWhitespace |-> TRUE, seenNonWhitespace |-> FALSE]

\* the locals before the loop (lines 216-220)
TextLiteralInit ==
    [result |-> <<>>, whitespace |-> <<>>,
     isInInitialLineWhitespace |-> FALSE, seenNonWhitespace |-> FALSE]

TextLiteralStepKeepsTrailing(st, c) ==
    IF c = Space \/ c = Tab
    THEN IF ~st.isInInitialLineWhitespace
         THEN [st EXCEPT !.whitespace = @ \o <<c>>]
         ELSE st
    ELSE IF c = Newline
    THEN [st EXCEPT !.isInInitialLineWhitespace = TRUE]
    ELSE [result |-> st.result
                     \o (IF st.seenNonWhitespace /\ st.isInInitialLineWhitespace
                         THEN <<Space>> ELSE <<>>)
                     \o st.whitespace \o <<c>>,
          whitespace |-> <<>>,
          seenNonWhitespace |-> TRUE,
          isInInitialLineWhitespace |-> FALSE]

\* one iteration of the loop (lines 222-238)
TextLiteralStep(st, c) ==
    IF c = Space \/ c = Tab
    THEN IF ~st.isInInitialLineWhitespace
         THEN [st EXCEPT !.whitespace = @ \o <<c>>]
         ELSE st
    ELSE IF c = Newline
    THEN [st EXCEPT !.whitespace = <<>>, !.isInInitialLineWhitespace = TRUE]
    ELSE [result |-> st.result
                     \o (IF st.seenNonWhitespace /\ st.isInInitialLineWhitespace
                         THEN <<Space>> ELSE <<>>)
                     \o st.whitespace \o <<c>>,
          whitespace |-> <<>>,
          seenNonWhitespace |-> TRUE,
          isInInitialLineWhitespace |-> FALSE]

RECURSIVE TextLiteralScan(_, _)
TextLiteralScan(st, s) ==
    IF s = <<>> THEN st ELSE TextLiteralScan(TextLiteralStep(st, Head(s)), Tail(s))

\* the string the literal denotes: result after lines 240-242
TextLiteralContent(s) ==
    LET st == TextLiteralScan(TextLiteralInit, s)
    IN IF ~st.isInInitialLineWhitespace THEN st.result \o st.whitespace ELSE st.result

formatJSXTextLiteral(s) == JSONStringify(TextLiteralContent(s))

(***************************************************************************)
(* formatJSXTextReplacement, lines 251-263                                 *)
(***************************************************************************)
TextReplacementStepNoReset(st, c) ==
    IF c = Newline THEN [st EXCEPT !.numNewlines = @ + 1]
    ELSE IF c = Space THEN [st EXCEPT !.numSpaces = @ + 1]
    ELSE st

\* one iteration of the loop (lines 255-260)
TextReplacementStep(st, c) ==
    IF c = Newline THEN [numNewlines |-> st.numNewlines + 1, numSpaces |-> 0]
    ELSE IF c = Space THEN [st EXCEPT !.numSpaces = @ + 1]
    ELSE st

RECURSIVE TextReplacementScan(_, _)
TextReplacementScan(st, s) ==
    IF s = <<>> THEN st
    ELSE TextReplacementScan(TextReplacementStep(st, Head(s)), Tail(s))

formatJSXTextReplacement(s) ==
    LET st == TextReplacementScan([numNewlines |-> 0, numSpaces |-> 0], s)
    IN Repeat(Newline, st.numNewlines) \o Repeat(Space, st.numSpaces)

(***************************************************************************)
(* formatJSXStringValueLiteral, lines 271-273                              *)
(***************************************************************************)
IsRegexWhitespaceNoNewline(c) == c \in {Space, Tab}

\* \s of the regular expression, over TextChars
IsRegexWhitespace(c) == c \in {Space, Tab, Newline}

RECURSIVE SkipWhitespace(_)
\* s without its longest prefix of whitespace: what \s+ leaves, being greedy
SkipWhitespace(s) ==
    IF s # <<>> /\ IsRegexWhitespace(Head(s)) THEN SkipWhitespace(Tail(s)) ELSE s

RECURSIVE ReplaceNewlineRuns(_)
\* text.replace(/\n\s+/g, " "): matches taken left to right, not overlapping
ReplaceNewlineRuns(s) ==
    IF s = <<>> THEN <<>>
    ELSE IF Head(s) = Newline /\ Len(s) >= 2 /\ IsRegexWhitespace(s[2])
    THEN <<Space>> \o ReplaceNewlineRuns(SkipWhitespace(Tail(s)))
    ELSE <<Head(s)>> \o ReplaceNewlineRuns(Tail(s))

formatJSXStringValueLiteral(s) == JSONStringify(ReplaceNewlineRuns(s))

(***************************************************************************)
(* SpecText: each formatter applied to each text                           *)
(***************************************************************************)
InitText ==
    /\ text \in Texts
    /\ textFn = "none"
    /\ textResult = <<>>
    /\ IdleLine
    /\ IdlePass

FormatJSXTextLiteral ==
    /\ textFn = "none"
    /\ textFn' = "formatJSXTextLiteral"
    /\ textResult' = formatJSXTextLiteral(text)
    /\ UNCHANGED <<text, lineVars, passVars>>

FormatJSXTextReplacement ==
    /\ textFn = "none"
    /\ textFn' = "formatJSXTextReplacement"
    /\ textResult' = formatJSXTextReplacement(text)
    /\ UNCHANGED <<text, lineVars, passVars>>

FormatJSXStringValueLiteral ==
    /\ textFn = "none"
    /\ textFn' = "formatJSXStringValueLiteral"
    /\ textResult' = formatJSXStringValueLiteral(text)
    /\ UNCHANGED <<text, lineVars, passVars>>

NextText ==
    \/ FormatJSXTextLiteral
    \/ FormatJSXTextReplacement
    \/ FormatJSXStringValueLiteral

SpecText == InitText /\ [][NextText]_vars


(***************************************************************************)
(* getLineNumberForIndex, lines 43-52                                      *)
(***************************************************************************)
RECURSIVE ScanLinesInclusive(_, _, _, _)
ScanLinesInclusive(c, li, ln, index) ==
    IF li <= index /\ li < Len(c)
    THEN ScanLinesInclusive(c, li + 1, IF c[li + 1] = Newline THEN ln + 1 ELSE ln, index)
    ELSE [lastIndex |-> li, lastLineNumber |-> ln]

RECURSIVE ScanLines(_, _, _, _)
\* the while loop (lines 45-50) started with lastIndex = li and
\* lastLineNumber = ln: the two fields when it exits
ScanLines(c, li, ln, index) ==
    IF li < index /\ li < Len(c)
    THEN ScanLines(c, li + 1, IF c[li + 1] = Newline THEN ln + 1 ELSE ln, index)
    ELSE [lastIndex |-> li, lastLineNumber |-> ln]

getLineNumberForIndexFromStart(index) == ScanLines(code, 0, 1, index)

\* the fields after the call getLineNumberForIndex(index); the call returns
\* the new lastLineNumber (line 51)
getLineNumberForIndex(index) == ScanLines(code, lastIndex, lastLineNumber, index)

(***************************************************************************)
(* SpecLine: getLineNumberForIndex called with offsets in any order        *)
(***************************************************************************)
Codes == SeqsUpTo({Newline, "a"}, MaxCodeLen)

InitLine ==
    /\ code \in Codes
    /\ lastIndex = 0
    /\ lastLineNumber = 1
    /\ lineCalls = <<>>
    /\ IdleText
    /\ IdlePass

GetLineNumberForIndex ==
    /\ Len(lineCalls) < MaxLineCalls
    /\ \E index \in 0..(Len(code) + 1) :
         LET after == getLineNumberForIndex(index)
         IN /\ lastIndex' = after.lastIndex
            /\ lastLineNumber' = after.lastLineNumber
            /\ lineCalls' = Append(lineCalls, [index |-> index,
                                               result |-> after.lastLineNumber])
    /\ UNCHANGED <<code, textVars, passVars>>

NextLine == GetLineNumberForIndex

SpecLine == InitLine /\ [][NextLine]_vars

(***************************************************************************)
(* The input of a pass: source text and its tokens.                        *)
(*                                                                         *)
(* A lexeme is a token before layout: its type label, the whitespace in    *)
(* front of it, its source text and its value.  Layout concatenates the    *)
(* lexemes into the code and gives every token its start and end offset.   *)
(* The role of a lexeme says what the grammar produced it as; the          *)
(* transformer never reads it, the properties do.                          *)
(***************************************************************************)
Lx(type, src, role) ==
    [type |-> type, ws |-> <<>>, src |-> src, value |-> src, role |-> role]

LxTagStart(role) == Lx("jsxTagStart", <<"<">>, role)
LxTagEnd(role) == Lx("jsxTagEnd", <<">">>, role)
LxSlash(role) == Lx("/", <<"/">>, role)
LxEq(role) == Lx("=", <<"=">>, role)
LxBraceL(role) == Lx("{", <<"{">>, role)
LxBraceR(role) == Lx("}", <<"}">>, role)
LxDot(role) == Lx(".", <<".">>, role)
LxEllipsis == Lx("...", <<".", ".", ".">>, "expr")
LxJSXName(v, role) == Lx("jsxName", v, role)
LxJSXText(v) == Lx("jsxText", v, "text")
LxName(v) == Lx("name", v, "expr")
LxString(v) ==
    [type |-> "string", ws |-> <<>>, src |-> <<DQuote>> \o v \o <<DQuote>>,
     value |-> v, role |-> "attrString"]

\* the lexemes ls with whitespace w in front of the first one
WithWs(ls, w) == [ls EXCEPT ![1].ws = w]
\* the lexemes ls, every one in the role r
InRole(ls, r) == [i \in 1..Len(ls) |-> [ls[i] EXCEPT !.role = r]]

\* tag names: lower-case, upper-case and caseless first character, and
\* dotted names starting either way
TopTagNames ==
    { <<LxJSXName(<<"d">>, "tagName")>>,
      <<LxJSXName(<<"F">>, "tagName")>>,
      <<LxJSXName(<<"_">>, "tagName")>>,
      <<LxJSXName(<<"F">>, "tagName"), LxDot("tagName"), LxJSXName(<<"b">>, "tagName")>>,
      <<LxJSXName(<<"d">>, "tagName"), LxDot("tagName"), LxJSXName(<<"b">>, "tagName")>> }
NestedTagNames == { <<LxJSXName(<<"d">>, "tagName")>> }
AttrNames == { <<"a">>, <<"d", "-", "x">> }
StringValues == { <<"s", Newline, Space, "s">> }
TextValues == { <<Space>>, <<Newline, Space>>, <<Space, "a", Newline, "a">> }

\* the attributes that hold no element
PlainAttrs ==
    {WithWs(<<LxJSXName(n, "attrName"), LxEq("attrEq"), LxString(v)>>, <<Space>>) :
        n \in AttrNames, v \in StringValues}
    \cup {WithWs(<<LxJSXName(n, "attrName")>>, <<Space>>) : n \in AttrNames}
    \cup {WithWs(<<LxJSXName(<<"a">>, "attrName")>>, <<Newline>>)}
    \cup {WithWs(<<LxJSXName(n, "attrName"), LxEq("attrEq"), LxBraceL("attrBraceL"),
                   LxName(<<"x">>), LxBraceR("attrBraceR")>>, <<Space>>) : n \in AttrNames}
    \cup {WithWs(<<LxBraceL("spreadL"), LxEllipsis, LxName(<<"x">>), LxBraceR("spreadR")>>,
                 <<Space>>)}

\* the children that hold no element
PlainChildren ==
    {<<LxJSXText(v)>> : v \in TextValues}
    \cup {<<LxBraceL("emptyL"), LxBraceR("emptyR")>>,
          <<LxBraceL("interpL"), LxName(<<"x">>), LxBraceR("interpR")>>}

\* an element in expression position starts on the same line or on a new one
Placed(e) == {e, WithWs(e, <<Newline>>)}

RECURSIVE Elements(_, _), AttrSeqs(_), Attrs(_), ChildSeqs(_), Children(_)

\* the attributes of at most n items: an attribute is one item, an element
\* in its value counts its own items
Attrs(n) ==
    IF n < 1 THEN {}
    ELSE PlainAttrs
         \cup {WithWs(<<LxJSXName(<<"a">>, "attrName"), LxEq("attrEq"),
                        LxBraceL("attrBraceL")>>, <<Space>>)
               \o pe \o <<LxBraceR("attrBraceR")>> :
                 pe \in UNION {Placed(e) : e \in Elements(n - 1, NestedTagNames)}}

AttrSeqs(n) ==
    {<<>>} \cup UNION {{a \o rest : a \in Attrs(k), rest \in AttrSeqs(n - k)} : k \in 1..n}

Children(n) ==
    IF n < 1 THEN {}
    ELSE PlainChildren
         \cup {[e EXCEPT ![1].role = "childOpen"] : e \in Elements(n, NestedTagNames)}
         \cup {<<LxBraceL("interpL")>> \o pe \o <<LxBraceR("interpR")>> :
                 pe \in UNION {Placed(e) : e \in Elements(n - 1, NestedTagNames)}}

\* child sequences of at most n items; the tokenizer never yields two
\* adjacent text tokens
ChildSeqs(n) ==
    {<<>>}
    \cup UNION {UNION {{c \o rest : rest \in {r \in ChildSeqs(n - k) :
                                                ~(/\ c[1].type = "jsxText"
                                                  /\ r # <<>>
                                                  /\ r[1].type = "jsxText")}} :
                         c \in Children(k)} :
                  k \in 1..n}

\* the well-formed elements of at most n items with a name of the set names:
\* the element itself is one item
Elements(n, names) ==
    IF n < 1 THEN {}
    ELSE {<<LxTagStart("open")>> \o nm \o ats \o <<LxSlash("selfSlash"), LxTagEnd("close")>> :
            nm \in names, ats \in AttrSeqs(n - 1)}
         \cup UNION {{<<LxTagStart("open")>> \o nm \o ats \o <<LxTagEnd("openEnd")>> \o cs
                        \o <<LxTagStart("closing"), LxSlash("closing")>>
                        \o InRole(nm, "closing") \o <<LxTagEnd("close")>> :
                        nm \in names, ats \in AttrSeqs(k), cs \in ChildSeqs(n - 1 - k)} :
                     k \in 0..(n - 1)}

\* the well-formed files: no element at all; one element, with any of the
\* tag names when it is small; an element on the second line; two elements
\* on consecutive lines
WellFormedFiles ==
    {<<LxName(<<"x">>)>>}
    \cup Elements(MaxItems, NestedTagNames)
    \cup Elements(MaxItems - 1, TopTagNames)
    \cup {<<LxName(<<"x">>), LxEq("expr")>> \o WithWs(e, <<Newline>>) :
            e \in Elements(MaxItems - 1, NestedTagNames)}
    \cup UNION {{e1 \o WithWs(e2, <<Newline>>) :
                   e1 \in Elements(k, NestedTagNames),
                   e2 \in Elements(MaxItems - k, NestedTagNames)} : k \in 1..(MaxItems - 1)}

\* one element with one text child, and one with one string attribute, for
\* every short text over spaces, tabs, newlines and a content character
ValueChars == {Space, Tab, Newline, "a"}
TextChildFiles ==
    {<<LxTagStart("open"), LxJSXName(<<"d">>, "tagName"), LxTagEnd("openEnd"),
       LxJSXText(v), LxTagStart("closing"), LxSlash("closing"),
       LxJSXName(<<"d">>, "closing"), LxTagEnd("close")>> :
        v \in SeqsUpTo(ValueChars, MaxValueLen) \ {<<>>}}
StringAttrFiles ==
    {<<LxTagStart("open"), LxJSXName(<<"d">>, "tagName")>>
       \o WithWs(<<LxJSXName(<<"a">>, "attrName"), LxEq("attrEq"), LxString(v)>>, <<Space>>)
       \o <<LxSlash("selfSlash"), LxTagEnd("close")>> :
        v \in SeqsUpTo(ValueChars, MaxValueLen)}

\* a stray token put into an element, somewhere after its first token
InsertAt(ls, i, l) == SubSeq(ls, 1, i) \o <<l>> \o SubSeq(ls, i + 1, Len(ls))
StrayLexemes == {LxBraceR("stray"), LxEq("stray")}
MalformedFiles ==
    UNION {{InsertAt(e, i, l) : i \in 1..(Len(e) - 1), l \in StrayLexemes} :
             e \in Elements(MaxItems - 1, NestedTagNames)}

\* buffers that end inside the tag intro: the tag-open marker and the first
\* tokens of the name, nothing after
TruncatedFiles ==
    UNION {{<<LxTagStart("open")>> \o SubSeq(nm, 1, k) : k \in 0..Len(nm)} :
             nm \in TopTagNames}

RECURSIVE Layout(_, _, _)
\* the code and the tokens of the lexemes ls, laid out after the code c and
\* the tokens ts
Layout(ls, c, ts) ==
    IF ls = <<>> THEN [code |-> c, tokens |-> ts]
    ELSE LET l == Head(ls)
             start == Len(c) + Len(l.ws)
         IN Layout(Tail(ls), c \o l.ws \o l.src,
                   Append(ts, [type |-> l.type, value |-> l.value, role |-> l.role,
                               start |-> start, end |-> start + Len(l.src)]))

Files ==
    {Layout(f, <<>>, <<>>) :
        f \in WellFormedFiles \cup TextChildFiles \cup StringAttrFiles
                \cup MalformedFiles \cup TruncatedFiles}

\* the environments of a pass: no path, no import of React and no name taken;
\* or a path, React imported under another name and _jsxFileName taken
Environments ==
    { [filePath |-> <<Null>>, reactName |-> Null, usedNames |-> {}],
      [filePath |-> <<"a", DQuote>>, reactName |-> "_react.default",
       usedNames |-> {"_jsxFileName"}] }

(***************************************************************************)
(* TokenProcessor: the cursor over the token buffer and the emitted text.  *)
(* Indexes are 0-based as in the source; tokens[i + 1] is token i.         *)
(***************************************************************************)
\* whether the tokens from index i on have the types tys, in order
MatchesAtIndex(i, tys) ==
    /\ i >= 0
    /\ \A k \in 1..Len(tys) : i + k <= Len(tokens) /\ tokens[i + k].type = tys[k]

Matches1(t1) == MatchesAtIndex(tokenIndex, <<t1>>)
Matches2(t1, t2) == MatchesAtIndex(tokenIndex, <<t1, t2>>)
IsAtEnd == tokenIndex >= Len(tokens)

\* the source text between token i and the token before it
PreviousWhitespace(i) ==
    SubSeq(code, (IF i = 0 THEN 0 ELSE tokens[i].end) + 1, tokens[i + 1].start)

\* One entry of resultCode per emitting call: the call (op), the token it
\* consumed (index; for appendCode the token at the cursor), the whitespace
\* copied in front, the text, and the function and element it was made for.
Emission(op, i, ws, txt, f) ==
    [op |-> op, index |-> i, ws |-> ws, text |-> txt, fn |-> f.fn, elem |-> f.elem]

\* resultCode after replaceToken(newCode) on token i; the cursor moves to i + 1
ReplaceToken(rc, i, newCode, f) ==
    Append(rc, Emission("replace", i, PreviousWhitespace(i), newCode, f))

\* resultCode after copyToken() on token i; the cursor moves to i + 1
CopyToken(rc, i, f) ==
    Append(rc, Emission("copy", i, PreviousWhitespace(i),
                        SubSeq(code, tokens[i + 1].start + 1, tokens[i + 1].end), f))

\* resultCode after appendCode(newCode) with the cursor on token i
AppendCode(rc, i, newCode, f) == Append(rc, Emission("append", i, <<>>, newCode, f))

(***************************************************************************)
(* The call stack                                                          *)
(***************************************************************************)
\* a frame: the function, where it is in its body, the element it works for
\* (elem: the start offset of that element's first token, -1 outside any)
\* and its locals
Frame(fn, pc, elem) ==
    [fn |-> fn, pc |-> pc, elem |-> elem, introEnd |-> 0, devProps |-> <<>>,
     braceDepth |-> 0]

Top == stack[Len(stack)]
At(fn, pc) == status = "running" /\ stack # <<>> /\ Top.fn = fn /\ Top.pc = pc
Popped == SubSeq(stack, 1, Len(stack) - 1)
\* the stack with its top frame replaced by f
Replaced(f) == [stack EXCEPT ![Len(stack)] = f]

\* a falsy string of the source: null or the empty string
Falsy(x) == x = Null \/ x = ""

\* throw new Error(message): nothing in the transformer catches it, so every
\* frame is left
ThrowReturnsInstead(message) ==
    /\ stack' = Popped
    /\ UNCHANGED <<status, error>>

Throw(message) ==
    /\ status' = "failed"
    /\ error' = message
    /\ stack' = <<>>

(***************************************************************************)
(* NameManager.claimFreeName and getFilenameVarName, lines 54-59           *)
(***************************************************************************)
RECURSIVE FreeName(_, _, _)
\* the first of seed, seed2, seed3, ... that is not in used
FreeName(seed, k, used) ==
    LET candidate == IF k = 1 THEN seed ELSE seed \o ToString(k)
    IN IF candidate \in used THEN FreeName(seed, k + 1, used) ELSE candidate

ClaimFreeName(seed) == FreeName(seed, 1, usedNames)

getFilenameVarNameAlwaysClaims ==
    LET n == ClaimFreeName("_jsxFileName")
    IN [name |-> n, usedNames |-> usedNames \cup {n}, claimCalls |-> Append(claimCalls, n)]

\* the value returned, and the name manager after the call
getFilenameVarName ==
    IF Falsy(filenameVarName)
    THEN LET n == ClaimFreeName("_jsxFileName")
         IN [name |-> n, usedNames |-> usedNames \cup {n},
             claimCalls |-> Append(claimCalls, n)]
    ELSE [name |-> filenameVarName, usedNames |-> usedNames, claimCalls |-> claimCalls]

\* getPrefixCode, lines 31-37
getPrefixCode ==
    IF ~Falsy(filenameVarName)
    THEN <<"const ", filenameVarName, " = ">>
         \o JSONStringify(IF filePath = <<Null>> \/ filePath = <<>> THEN <<>> ELSE filePath)
         \o <<";">>
    ELSE <<>>

(***************************************************************************)
(* Init of a pass                                                          *)
(***************************************************************************)
Init ==
    /\ \E f \in Files : code = f.code /\ tokens = f.tokens
    /\ \E e \in Environments :
         filePath = e.filePath /\ reactName = e.reactName /\ usedNames = e.usedNames
    /\ tokenIndex = 0
    /\ resultCode = <<>>
    /\ lastIndex = 0
    /\ lastLineNumber = 1
    /\ lineCalls = <<>>
    /\ claimCalls = <<>>
    /\ filenameVarName = Null
    /\ stack = <<Frame("processBalancedCode", "loop", -1)>>
    /\ status = "running"
    /\ error = ""
    /\ output = NoOutput
    /\ IdleText

lineFields == <<lastIndex, lastLineNumber, lineCalls>>
nameFields == <<filenameVarName, usedNames, claimCalls>>
inputs == <<code, tokens, filePath, reactName>>

(***************************************************************************)
(* RootTransformer.processBalancedCode and processToken                    *)
(***************************************************************************)
\* processBalancedCode returns: at the end of the buffer, or on the brace
\* that closes the region
BalancedReturn ==
    /\ At("processBalancedCode", "loop")
    /\ IsAtEnd \/ (Matches1("}") /\ Top.braceDepth = 0)
    /\ stack' = Popped
    /\ UNCHANGED <<tokenIndex, resultCode, status, error, output, lineFields,
                   nameFields, inputs, textVars>>

\* processToken on a token no transformer claims (process() returned false,
\* lines 24 and 28): the token is copied
BalancedProcessToken ==
    /\ At("processBalancedCode", "loop")
    /\ ~IsAtEnd
    /\ ~(Matches1("}") /\ Top.braceDepth = 0)
    /\ ~Matches1("jsxTagStart")
    /\ resultCode' = CopyToken(resultCode, tokenIndex, Top)
    /\ tokenIndex' = tokenIndex + 1
    /\ stack' = Replaced([Top EXCEPT !.braceDepth =
                             IF Matches1("{") THEN @ + 1
                             ELSE IF Matches1("}") THEN @ - 1 ELSE @])
    /\ UNCHANGED <<status, error, output, lineFields, nameFields, inputs, textVars>>

\* process(), lines 23-27: processToken offers a tag-open marker to the JSX
\* transformer, which calls processJSXTag
Process ==
    /\ \/ At("processBalancedCode", "loop") /\ ~IsAtEnd
       \/ At("processTagIntro", "loop") /\ tokenIndex < Top.introEnd
    /\ Matches1("jsxTagStart")
    /\ stack' = Append(stack, Frame("processJSXTag", "start", -1))
    /\ UNCHANGED <<tokenIndex, resultCode, status, error, output, lineFields,
                   nameFields, inputs, textVars>>

(***************************************************************************)
(* processJSXTag, lines 176-199, and processTagIntro, lines 109-133        *)
(***************************************************************************)
\* lines 177-181 and 115: the open marker becomes the call's opening text,
\* then processTagIntro is entered
ProcessJSXTagStart ==
    /\ At("processJSXTag", "start")
    /\ LET resolvedReactName == IF Falsy(reactName) THEN "React" ELSE reactName
           firstTokenStart == tokens[tokenIndex + 1].start
           me == [Top EXCEPT !.pc = "props", !.elem = firstTokenStart]
       IN /\ resultCode' = ReplaceToken(resultCode, tokenIndex,
                                        <<resolvedReactName, ".createElement(">>, me)
          /\ tokenIndex' = tokenIndex + 1
          /\ stack' = Append(Replaced(me),
                             [Frame("processTagIntro", "scan", firstTokenStart)
                                EXCEPT !.introEnd = tokenIndex + 2])
    /\ UNCHANGED <<status, error, output, lineFields, nameFields, inputs, textVars>>

\* the condition that ends the scan for the end of the intro (lines 117-120)
IntroEndsAt(introEnd) ==
    \/ MatchesAtIndex(introEnd - 1, <<"jsxName", "jsxName">>)
    \/ MatchesAtIndex(introEnd, <<"{">>)
    \/ MatchesAtIndex(introEnd, <<"jsxTagEnd">>)
    \/ MatchesAtIndex(introEnd, <<"/", "jsxTagEnd">>)

\* one iteration of the scan (lines 116-123)
TagIntroScan ==
    /\ At("processTagIntro", "scan")
    /\ ~IntroEndsAt(Top.introEnd)
    /\ Top.introEnd <= Len(tokens)
    /\ stack' = Replaced([Top EXCEPT !.introEnd = @ + 1])
    /\ UNCHANGED <<tokenIndex, resultCode, status, error, output, lineFields,
                   nameFields, inputs, textVars>>

\* String.prototype.toLowerCase on one character of the model's alphabet
ToLowerCase(c) == IF c = "F" THEN "f" ELSE c

\* startsWithLowerCase, lines 202-204
startsWithLowerCase(s) == s[1] = ToLowerCase(s[1])

\* whether the name is rewritten as a string literal (lines 124-127)
QuotesTagName(introEnd) ==
    /\ introEnd = tokenIndex + 1
    /\ startsWithLowerCase(tokens[tokenIndex + 1].value)

\* lines 124-129: the scan has ended; a single lower-case name is quoted
TagIntroName ==
    /\ At("processTagIntro", "scan")
    /\ IntroEndsAt(Top.introEnd)
    /\ IF QuotesTagName(Top.introEnd)
       THEN /\ resultCode' = ReplaceToken(resultCode, tokenIndex,
                                 <<"'">> \o tokens[tokenIndex + 1].value \o <<"'">>, Top)
            /\ tokenIndex' = tokenIndex + 1
       ELSE UNCHANGED <<resultCode, tokenIndex>>
    /\ stack' = Replaced([Top EXCEPT !.pc = "loop"])
    /\ UNCHANGED <<status, error, output, lineFields, nameFields, inputs, textVars>>

\* lines 130-132: a token of the intro goes to processToken, which copies it
TagIntroProcessToken ==
    /\ At("processTagIntro", "loop")
    /\ tokenIndex < Top.introEnd
    /\ ~Matches1("jsxTagStart")
    /\ resultCode' = CopyToken(resultCode, tokenIndex, Top)
    /\ tokenIndex' = tokenIndex + 1
    /\ UNCHANGED <<stack, status, error, output, lineFields, nameFields, inputs, textVars>>

\* processTagIntro returns (line 133)
TagIntroReturn ==
    /\ At("processTagIntro", "loop")
    /\ tokenIndex >= Top.introEnd
    /\ stack' = Popped
    /\ UNCHANGED <<tokenIndex, resultCode, status, error, output, lineFields,
                   nameFields, inputs, textVars>>

(***************************************************************************)
(* processProps, lines 61-97, and processStringPropValue, lines 99-104     *)
(***************************************************************************)
PropsLineCallAtCursor(firstTokenStart) ==
    getLineNumberForIndex(IF IsAtEnd THEN firstTokenStart ELSE tokens[tokenIndex + 1].start)

\* line 62: the line number of the element's first token
PropsLineCall(firstTokenStart) == getLineNumberForIndex(firstTokenStart)

\* line 63: the text of the debug props
DevProps(fileName, lineNumber) ==
    <<"__self: this, __source: {fileName: ", fileName, ", lineNumber: ",
      ToString(lineNumber), "}">>

\* lines 62-66: an element without attributes gets the debug props alone
ProcessPropsEmpty ==
    /\ At("processJSXTag", "props")
    /\ ~Matches1("jsxName") /\ ~Matches1("{")
    /\ LET line == PropsLineCall(Top.elem)
           fv == getFilenameVarName
           dp == DevProps(fv.name, line.lastLineNumber)
           me == Frame("processProps", "loop", Top.elem)
       IN /\ resultCode' = AppendCode(resultCode, tokenIndex, <<", {">> \o dp \o <<"}">>, me)
          /\ lastIndex' = line.lastIndex
          /\ lastLineNumber' = line.lastLineNumber
          /\ lineCalls' = Append(lineCalls, [index |-> Top.elem,
                                             result |-> line.lastLineNumber])
          /\ filenameVarName' = fv.name
          /\ usedNames' = fv.usedNames
          /\ claimCalls' = fv.claimCalls
    /\ stack' = Replaced([Top EXCEPT !.pc = "terminator"])
    /\ UNCHANGED <<tokenIndex, status, error, output, inputs, textVars>>

\* lines 62-64 and 68: the object literal is opened and the attribute loop
\* entered
ProcessPropsBegin ==
    /\ At("processJSXTag", "props")
    /\ Matches1("jsxName") \/ Matches1("{")
    /\ LET line == PropsLineCall(Top.elem)
           fv == getFilenameVarName
           dp == DevProps(fv.name, line.lastLineNumber)
           me == [Frame("processProps", "loop", Top.elem) EXCEPT !.devProps = dp]
       IN /\ resultCode' = AppendCode(resultCode, tokenIndex, <<", {">>, me)
          /\ lastIndex' = line.lastIndex
          /\ lastLineNumber' = line.lastLineNumber
          /\ lineCalls' = Append(lineCalls, [index |-> Top.elem,
                                             result |-> line.lastLineNumber])
          /\ filenameVarName' = fv.name
          /\ usedNames' = fv.usedNames
          /\ claimCalls' = fv.claimCalls
          /\ stack' = Append(Replaced([Top EXCEPT !.pc = "terminator"]), me)
    /\ UNCHANGED <<tokenIndex, status, error, output, inputs, textVars>>

\* String.prototype.includes for one character
Includes(s, c) == \E k \in 1..Len(s) : s[k] = c

EmitPropKeyNeverQuoted(rc, i, f) == CopyToken(rc, i, f)

\* lines 71-75: the attribute name, quoted when it contains a hyphen
EmitPropKey(rc, i, f) ==
    IF Includes(tokens[i + 1].value, "-")
    THEN ReplaceToken(rc, i, <<"'">> \o tokens[i + 1].value \o <<"'">>, f)
    ELSE CopyToken(rc, i, f)

AppendSeparatorForgotten(rc, i, f) == rc

\* line 94: the separator after an attribute
AppendSeparator(rc, i, f) == AppendCode(rc, i, <<",">>, f)

EmitStringPropValueLiteralOnly(rc, i, f) ==
    ReplaceToken(rc, i, formatJSXStringValueLiteral(tokens[i + 1].value), f)

\* processStringPropValue, lines 99-104, on token i
EmitStringPropValue(rc, i, f) ==
    LET value == tokens[i + 1].value
        replacementCode == formatJSXTextReplacement(value)
        literalCode == formatJSXStringValueLiteral(value)
    IN ReplaceToken(rc, i, literalCode \o replacementCode, f)

\* lines 70-76, 81-83 and 94: name = value, the value not in braces
PropStringValue ==
    /\ At("processProps", "loop")
    /\ Matches2("jsxName", "=")
    /\ ~MatchesAtIndex(tokenIndex + 2, <<"{">>)
    /\ LET rc1 == EmitPropKey(resultCode, tokenIndex, Top)
           rc2 == ReplaceToken(rc1, tokenIndex + 1, <<": ">>, Top)
           rc3 == EmitStringPropValue(rc2, tokenIndex + 2, Top)
       IN resultCode' = AppendSeparator(rc3, tokenIndex + 3, Top)
    /\ tokenIndex' = tokenIndex + 3
    /\ UNCHANGED <<stack, status, error, output, lineFields, nameFields, inputs, textVars>>

\* lines 70-79: name = {expression}, up to the call of processBalancedCode
PropExprValueBegin ==
    /\ At("processProps", "loop")
    /\ Matches2("jsxName", "=")
    /\ MatchesAtIndex(tokenIndex + 2, <<"{">>)
    /\ LET rc1 == EmitPropKey(resultCode, tokenIndex, Top)
           rc2 == ReplaceToken(rc1, tokenIndex + 1, <<": ">>, Top)
       IN resultCode' = ReplaceToken(rc2, tokenIndex + 2, <<>>, Top)
    /\ tokenIndex' = tokenIndex + 3
    /\ stack' = Append(Replaced([Top EXCEPT !.pc = "afterExpr"]),
                       Frame("processBalancedCode", "loop", -1))
    /\ UNCHANGED <<status, error, output, lineFields, nameFields, inputs, textVars>>

PropBooleanSkipsName ==
    /\ At("processProps", "loop")
    /\ ~Matches2("jsxName", "=")
    /\ Matches1("jsxName")
    /\ LET rc1 == AppendCode(resultCode, tokenIndex, tokens[tokenIndex + 1].value, Top)
           rc2 == AppendCode(rc1, tokenIndex + 1, <<": true">>, Top)
       IN resultCode' = AppendSeparator(rc2, tokenIndex + 1, Top)
    /\ tokenIndex' = tokenIndex + 1
    /\ UNCHANGED <<stack, status, error, output, lineFields, nameFields, inputs, textVars>>

\* lines 84-86 and 94: a name without a value
PropBoolean ==
    /\ At("processProps", "loop")
    /\ ~Matches2("jsxName", "=")
    /\ Matches1("jsxName")
    /\ LET rc1 == CopyToken(resultCode, tokenIndex, Top)
           rc2 == AppendCode(rc1, tokenIndex + 1, <<": true">>, Top)
       IN resultCode' = AppendSeparator(rc2, tokenIndex + 1, Top)
    /\ tokenIndex' = tokenIndex + 1
    /\ UNCHANGED <<stack, status, error, output, lineFields, nameFields, inputs, textVars>>

\* lines 87-89: a spread, up to the call of processBalancedCode
PropSpreadBegin ==
    /\ At("processProps", "loop")
    /\ ~Matches1("jsxName")
    /\ Matches1("{")
    /\ resultCode' = ReplaceToken(resultCode, tokenIndex, <<>>, Top)
    /\ tokenIndex' = tokenIndex + 1
    /\ stack' = Append(Replaced([Top EXCEPT !.pc = "afterExpr"]),
                       Frame("processBalancedCode", "loop", -1))
    /\ UNCHANGED <<status, error, output, lineFields, nameFields, inputs, textVars>>

\* lines 80 or 90, and 94: processBalancedCode has returned; the closing
\* brace is removed and the separator appended
PropExprEnd ==
    /\ At("processProps", "afterExpr")
    /\ LET rc1 == ReplaceToken(resultCode, tokenIndex, <<>>, Top)
       IN resultCode' = AppendSeparator(rc1, tokenIndex + 1, Top)
    /\ tokenIndex' = tokenIndex + 1
    /\ stack' = Replaced([Top EXCEPT !.pc = "loop"])
    /\ UNCHANGED <<status, error, output, lineFields, nameFields, inputs, textVars>>

\* lines 91-92 and 96-97: no attribute follows; the debug props close the
\* object literal and processProps returns
ProcessPropsEnd ==
    /\ At("processProps", "loop")
    /\ ~Matches1("jsxName") /\ ~Matches1("{")
    /\ resultCode' = AppendCode(resultCode, tokenIndex,
                                <<" ">> \o Top.devProps \o <<"}">>, Top)
    /\ stack' = Popped
    /\ UNCHANGED <<tokenIndex, status, error, output, lineFields, nameFields, inputs,
                   textVars>>

(***************************************************************************)
(* processJSXTag after the props, lines 184-198                            *)
(***************************************************************************)
TagSelfCloseNoParen ==
    /\ At("processJSXTag", "terminator")
    /\ Matches2("/", "jsxTagEnd")
    /\ LET rc1 == ReplaceToken(resultCode, tokenIndex, <<>>, Top)
       IN resultCode' = ReplaceToken(rc1, tokenIndex + 1, <<>>, Top)
    /\ tokenIndex' = tokenIndex + 2
    /\ stack' = Popped
    /\ UNCHANGED <<status, error, output, lineFields, nameFields, inputs, textVars>>

\* lines 184-187: a self-closing tag
TagSelfClose ==
    /\ At("processJSXTag", "terminator")
    /\ Matches2("/", "jsxTagEnd")
    /\ LET rc1 == ReplaceToken(resultCode, tokenIndex, <<>>, Top)
       IN resultCode' = ReplaceToken(rc1, tokenIndex + 1, <<")">>, Top)
    /\ tokenIndex' = tokenIndex + 2
    /\ stack' = Popped
    /\ UNCHANGED <<status, error, output, lineFields, nameFields, inputs, textVars>>

\* lines 188-191: the open tag ends; processChildren is called
TagOpenEnd ==
    /\ At("processJSXTag", "terminator")
    /\ ~Matches2("/", "jsxTagEnd")
    /\ Matches1("jsxTagEnd")
    /\ resultCode' = ReplaceToken(resultCode, tokenIndex, <<>>, Top)
    /\ tokenIndex' = tokenIndex + 1
    /\ stack' = Append(Replaced([Top EXCEPT !.pc = "closing"]),
                       Frame("processChildren", "loop", Top.elem))
    /\ UNCHANGED <<status, error, output, lineFields, nameFields, inputs, textVars>>

\* lines 196-198: neither terminator
TagError ==
    /\ At("processJSXTag", "terminator")
    /\ ~Matches2("/", "jsxTagEnd")
    /\ ~Matches1("jsxTagEnd")
    /\ Throw("Expected either /> or > at the end of the tag.")
    /\ UNCHANGED <<tokenIndex, resultCode, output, lineFields, nameFields, inputs,
                   textVars>>

\* lines 192-194: a token of the closing tag is dropped
TagDiscardClosing ==
    /\ At("processJSXTag", "closing")
    /\ ~Matches1("jsxTagEnd")
    /\ resultCode' = ReplaceToken(resultCode, tokenIndex, <<>>, Top)
    /\ tokenIndex' = tokenIndex + 1
    /\ UNCHANGED <<stack, status, error, output, lineFields, nameFields, inputs, textVars>>

TagCloseKeepsCursor ==
    /\ At("processJSXTag", "closing")
    /\ Matches1("jsxTagEnd")
    /\ resultCode' = AppendCode(resultCode, tokenIndex, <<")">>, Top)
    /\ stack' = Popped
    /\ UNCHANGED <<tokenIndex, status, error, output, lineFields, nameFields, inputs,
                   textVars>>

\* line 195: the close marker of the closing tag ends the call
TagClose ==
    /\ At("processJSXTag", "closing")
    /\ Matches1("jsxTagEnd")
    /\ resultCode' = ReplaceToken(resultCode, tokenIndex, <<")">>, Top)
    /\ tokenIndex' = tokenIndex + 1
    /\ stack' = Popped
    /\ UNCHANGED <<status, error, output, lineFields, nameFields, inputs, textVars>>

(***************************************************************************)
(* processChildren, lines 135-163, processChildTextElement, lines 165-174  *)
(***************************************************************************)
\* lines 137-140: the closing tag starts
ChildrenReturn ==
    /\ At("processChildren", "loop")
    /\ Matches2("jsxTagStart", "/")
    /\ stack' = Popped
    /\ UNCHANGED <<tokenIndex, resultCode, status, error, output, lineFields,
                   nameFields, inputs, textVars>>

\* lines 141-146: an empty interpolation
ChildEmptyInterpolation ==
    /\ At("processChildren", "loop")
    /\ ~Matches2("jsxTagStart", "/")
    /\ Matches2("{", "}")
    /\ LET rc1 == ReplaceToken(resultCode, tokenIndex, <<>>, Top)
       IN resultCode' = ReplaceToken(rc1, tokenIndex + 1, <<>>, Top)
    /\ tokenIndex' = tokenIndex + 2
    /\ UNCHANGED <<stack, status, error, output, lineFields, nameFields, inputs, textVars>>

\* lines 141 and 147-150: an interpolation, up to the call of
\* processBalancedCode
ChildInterpolationBegin ==
    /\ At("processChildren", "loop")
    /\ ~Matches2("jsxTagStart", "/")
    /\ Matches1("{")
    /\ ~Matches2("{", "}")
    /\ resultCode' = ReplaceToken(resultCode, tokenIndex, <<", ">>, Top)
    /\ tokenIndex' = tokenIndex + 1
    /\ stack' = Append(Replaced([Top EXCEPT !.pc = "afterExpr"]),
                       Frame("processBalancedCode", "loop", -1))
    /\ UNCHANGED <<status, error, output, lineFields, nameFields, inputs, textVars>>

\* line 151: processBalancedCode has returned; the closing brace is removed
ChildInterpolationEnd ==
    /\ At("processChildren", "afterExpr")
    /\ resultCode' = ReplaceToken(resultCode, tokenIndex, <<>>, Top)
    /\ tokenIndex' = tokenIndex + 1
    /\ stack' = Replaced([Top EXCEPT !.pc = "loop"])
    /\ UNCHANGED <<status, error, output, lineFields, nameFields, inputs, textVars>>

\* lines 153-156: a child element
ChildElement ==
    /\ At("processChildren", "loop")
    /\ ~Matches2("jsxTagStart", "/")
    /\ ~Matches1("{")
    /\ Matches1("jsxTagStart")
    /\ resultCode' = AppendCode(resultCode, tokenIndex, <<", ">>, Top)
    /\ stack' = Append(stack, Frame("processJSXTag", "start", -1))
    /\ UNCHANGED <<tokenIndex, status, error, output, lineFields, nameFields, inputs,
                   textVars>>

EmitChildTextAlwaysArgument(rc, i, f) ==
    LET value == tokens[i + 1].value
    IN ReplaceToken(rc, i, <<", ">> \o formatJSXTextLiteral(value)
                           \o formatJSXTextReplacement(value), f)

EmitChildTextNoPassthrough(rc, i, f) ==
    LET value == tokens[i + 1].value
        literalCode == formatJSXTextLiteral(value)
    IN IF literalCode = <<DQuote, DQuote>>
       THEN ReplaceToken(rc, i, <<>>, f)
       ELSE ReplaceToken(rc, i, <<", ">> \o literalCode, f)

\* processChildTextElement, lines 165-174, on token i
EmitChildText(rc, i, f) ==
    LET value == tokens[i + 1].value
        replacementCode == formatJSXTextReplacement(value)
        literalCode == formatJSXTextLiteral(value)
    IN IF literalCode = <<DQuote, DQuote>>
       THEN ReplaceToken(rc, i, replacementCode, f)
       ELSE ReplaceToken(rc, i, <<", ">> \o literalCode \o replacementCode, f)

\* lines 157-158: a text child
ChildText ==
    /\ At("processChildren", "loop")
    /\ ~Matches2("jsxTagStart", "/")
    /\ ~Matches1("{")
    /\ ~Matches1("jsxTagStart")
    /\ Matches1("jsxText")
    /\ resultCode' = EmitChildText(resultCode, tokenIndex, Top)
    /\ tokenIndex' = tokenIndex + 1
    /\ UNCHANGED <<stack, status, error, output, lineFields, nameFields, inputs, textVars>>

\* lines 159-161: any other token in child position
ChildError ==
    /\ At("processChildren", "loop")
    /\ ~Matches2("jsxTagStart", "/")
    /\ ~Matches1("{")
    /\ ~Matches1("jsxTagStart")
    /\ ~Matches1("jsxText")
    /\ Throw("Unexpected token when processing JSX children.")
    /\ UNCHANGED <<tokenIndex, resultCode, output, lineFields, nameFields, inputs,
                   textVars>>

(***************************************************************************)
(* The end of the pass                                                     *)
(***************************************************************************)
\* the caller of the pass: once the outermost processBalancedCode has
\* returned it asks for the prefix code and returns prefix and result
Finish ==
    /\ status = "running"
    /\ stack = <<>>
    /\ output' = [produced |-> TRUE, prefix |-> getPrefixCode, code |-> resultCode]
    /\ status' = "done"
    /\ UNCHANGED <<tokenIndex, resultCode, stack, error, lineFields, nameFields, inputs,
                   textVars>>

Next ==
    \/ BalancedReturn
    \/ BalancedProcessToken
    \/ Process
    \/ ProcessJSXTagStart
    \/ TagIntroScan
    \/ TagIntroName
    \/ TagIntroProcessToken
    \/ TagIntroReturn
    \/ ProcessPropsEmpty
    \/ ProcessPropsBegin
    \/ PropStringValue
    \/ PropExprValueBegin
    \/ PropBoolean
    \/ PropSpreadBegin
    \/ PropExprEnd
    \/ ProcessPropsEnd
    \/ TagSelfClose
    \/ TagOpenEnd
    \/ TagError
    \/ TagDiscardClosing
    \/ TagClose
    \/ ChildrenReturn
    \/ ChildEmptyInterpolation
    \/ ChildInterpolationBegin
    \/ ChildInterpolationEnd
    \/ ChildElement
    \/ ChildText
    \/ ChildError
    \/ Finish

Spec == Init /\ [][Next]_vars

(***************************************************************************)
(* Reference definitions used by the properties                            *)
(***************************************************************************)
IsInlineWhitespace(c) == c \in {Space, Tab}

RECURSIVE TakeWhileIn(_, _)
\* the longest prefix of s whose characters all lie in cs
TakeWhileIn(s, cs) ==
    IF s # <<>> /\ Head(s) \in cs THEN <<Head(s)>> \o TakeWhileIn(Tail(s), cs) ELSE <<>>

DropN(s, n) == SubSeq(s, n + 1, Len(s))

NonWhitespaceChars == TextChars \ {Space, Tab, Newline}

\* s read as  ws1 w1 ws2 newline ws3 w2 ws4  (ws: spaces and tabs, possibly
\* none; w: a non-empty run of non-whitespace characters); ok tells whether
\* s has that shape
TwoLineParts(s) ==
    LET ws1 == TakeWhileIn(s, {Space, Tab})
        r1 == DropN(s, Len(ws1))
        w1 == TakeWhileIn(r1, NonWhitespaceChars)
        r2 == DropN(r1, Len(w1))
        ws2 == TakeWhileIn(r2, {Space, Tab})
        r3 == DropN(r2, Len(ws2))
        r4 == IF r3 = <<>> THEN <<>> ELSE Tail(r3)
        ws3 == TakeWhileIn(r4, {Space, Tab})
        r5 == DropN(r4, Len(ws3))
        w2 == TakeWhileIn(r5, NonWhitespaceChars)
        r6 == DropN(r5, Len(w2))
        ws4 == TakeWhileIn(r6, {Space, Tab})
        r7 == DropN(r6, Len(ws4))
    IN [ok |-> /\ w1 # <<>>
               /\ r3 # <<>> /\ Head(r3) = Newline
               /\ w2 # <<>>
               /\ r7 = <<>>,
        ws1 |-> ws1, w1 |-> w1, ws2 |-> ws2, ws3 |-> ws3, w2 |-> w2, ws4 |-> ws4]

RECURSIVE AfterLastNewline(_)
\* the part of s after its last newline; s itself when it has none
AfterLastNewline(s) ==
    IF Count(s, {Newline}) = 0 THEN s ELSE AfterLastNewline(Tail(s))

(***************************************************************************)
(* The structure of the input, read off the roles of its tokens            *)
(* (1-based token positions)                                               *)
(***************************************************************************)
\* the positions of the tag-open markers that start an element
OpenTokens == {i \in 1..Len(tokens) : tokens[i].role \in {"open", "childOpen"}}

Max(S) == CHOOSE x \in S : \A y \in S : y <= x

RECURSIVE MatchClose(_, _)
\* the position of the close marker where the nesting depth d, counted from
\* position j on, returns to 0 (0 when there is none)
MatchClose(j, d) ==
    IF j > Len(tokens) THEN 0
    ELSE LET nd == IF j \in OpenTokens THEN d + 1
                   ELSE IF tokens[j].role = "close" THEN d - 1 ELSE d
         IN IF nd = 0 THEN j ELSE MatchClose(j + 1, nd)

\* the position of the tag-close marker that ends the element opened at e
ElementEnd(e) == MatchClose(e, 0)

RECURSIVE AllElementsEnded(_, _)
\* whether the tokens from position j on end the d elements that are open
\* there and every element they open
AllElementsEnded(j, d) ==
    IF j > Len(tokens) THEN d = 0
    ELSE IF tokens[j].role \in {"open", "childOpen"} THEN AllElementsEnded(j + 1, d + 1)
    ELSE IF tokens[j].role = "close" THEN d > 0 /\ AllElementsEnded(j + 1, d - 1)
    ELSE AllElementsEnded(j + 1, d)

\* no stray token and every element ended: the file is one the grammar
\* produces
WellFormedInput ==
    /\ \A i \in 1..Len(tokens) : tokens[i].role # "stray"
    /\ AllElementsEnded(1, 0)

\* the innermost element that token j is a token of (0 outside any element)
InnermostElement(j) ==
    LET es == {e \in OpenTokens : e <= j /\ j <= ElementEnd(e)}
    IN IF es = {} THEN 0 ELSE Max(es)

\* the innermost element around the element opened at c (0 when there is none)
ParentElement(c) ==
    LET es == {e \in OpenTokens : e < c /\ c < ElementEnd(e)}
    IN IF es = {} THEN 0 ELSE Max(es)

\* the positions where the attributes of element e start, and their number
AttributesOf(e) ==
    {j \in 1..Len(tokens) : /\ tokens[j].role \in {"attrName", "spreadL"}
                            /\ InnermostElement(j) = e}

\* the children of element e that make a call argument: non-empty
\* interpolations, child elements, text with a non-empty literal
ChildArgumentsOf(e) ==
    {j \in 1..Len(tokens) :
        \/ tokens[j].role = "interpL" /\ InnermostElement(j) = e
        \/ tokens[j].role = "childOpen" /\ ParentElement(j) = e
        \/ /\ tokens[j].role = "text" /\ InnermostElement(j) = e
           /\ formatJSXTextLiteral(tokens[j].value) # <<DQuote, DQuote>>}

\* the emissions made by function fn for the element that starts at offset o
EmissionsOf(fn, o) == SelectSeq(resultCode, LAMBDA r : r.fn = fn /\ r.elem = o)

\* an emission that carries the debug props: they follow the emission's
\* first piece (", {" or " ")
IsDevPropsEmission(r) ==
    Len(r.text) >= 7 /\ r.text[2] = "__self: this, __source: {fileName: "
DevPropsEmissions == SelectSeq(resultCode, IsDevPropsEmission)

(***************************************************************************)
(* Properties                                                              *)
(***************************************************************************)

\* C1 as stated: for a text ws1 w1 ws2 newline ws3 w2 ws4 the literal is the
\* JSON string of  w1, one space, w2  (whitespace at both ends trimmed).
C1_TrimsBothEnds ==
    (textFn = "formatJSXTextLiteral" /\ TwoLineParts(text).ok)
        => LET p == TwoLineParts(text)
           IN textResult = JSONStringify(p.w1 \o <<Space>> \o p.w2)

\* C1 amended: for a text ws1 w1 ws2 newline ws3 w2 ws4 the literal is the
\* JSON string of  ws1 w1, one space, w2 ws4: the whitespace around the line
\* break collapses to one joining space, the whitespace before the first
\* line's content and after the last line's content is kept.
C1_JoinsLinesKeepsOuterWhitespace ==
    (textFn = "formatJSXTextLiteral" /\ TwoLineParts(text).ok)
        => LET p == TwoLineParts(text)
           IN textResult = JSONStringify(p.ws1 \o p.w1 \o <<Space>> \o p.w2 \o p.ws4)

\* C1 witness: the formatter has run on a two-line text that has whitespace
\* at its start, at its end and next to the line break.
C1_Witness ==
    /\ textFn = "formatJSXTextLiteral"
    /\ TwoLineParts(text).ok
    /\ TwoLineParts(text).ws1 # <<>>
    /\ TwoLineParts(text).ws4 # <<>>
    /\ TwoLineParts(text).ws2 \o TwoLineParts(text).ws3 # <<>>

\* C2: formatJSXTextReplacement returns k newlines followed by m spaces and
\* nothing else, k the number of newlines of the text and m the number of
\* spaces (tabs not counted) after its last newline.
C2_ReplacementNewlinesThenSpaces ==
    textFn = "formatJSXTextReplacement"
        => textResult = Repeat(Newline, Count(text, {Newline}))
                        \o Repeat(Space, Count(AfterLastNewline(text), {Space}))

\* C2 witness: the replacement of a text with a space and a tab after its
\* last newline, and a space before it.
C2_Witness ==
    /\ textFn = "formatJSXTextReplacement"
    /\ Count(text, {Newline}) >= 1
    /\ Count(AfterLastNewline(text), {Space}) >= 1
    /\ Count(AfterLastNewline(text), {Tab}) >= 1
    /\ Count(text, {Space}) > Count(AfterLastNewline(text), {Space})

\* the 1-based line of offset o: 1 plus the newlines of code[0..o)
LineOfOffset(o) ==
    1 + Count(SubSeq(code, 1, IF o < Len(code) THEN o ELSE Len(code)), {Newline})

\* the first n logged calls were made with non-decreasing offsets
NonDecreasingCalls(n) ==
    \A i \in 1..n : \A j \in 1..n : i <= j => lineCalls[i].index <= lineCalls[j].index

\* C3: as long as the offsets passed to getLineNumberForIndex have been
\* non-decreasing, every call with an offset o within the code returned
\* 1 + the number of newlines in code[0..o), however many calls came before.
C3_LineNumberMatchesIndependentCount ==
    \A n \in 1..Len(lineCalls) :
        (NonDecreasingCalls(n) /\ lineCalls[n].index <= Len(code))
            => lineCalls[n].result = LineOfOffset(lineCalls[n].index)

\* C3 witness: three calls with strictly increasing offsets, each on a later
\* line than the one before.
C3_Witness ==
    /\ Len(lineCalls) >= 3
    /\ lineCalls[1].index < lineCalls[2].index
    /\ lineCalls[2].index < lineCalls[3].index
    /\ lineCalls[3].index <= Len(code)
    /\ lineCalls[1].result < lineCalls[2].result
    /\ lineCalls[2].result < lineCalls[3].result

\* C4: the lineNumber written into an element's debug props is the 1-based
\* line of that element's own tag-open marker, the offsets passed to
\* getLineNumberForIndex are non-decreasing in call order, and when a
\* well-formed file is done every element of it (child, inside an attribute
\* expression, sibling) has got its debug props exactly once.
C4_LineNumberOfOwnTagOpen ==
    /\ \A k \in 1..Len(resultCode) :
          IsDevPropsEmission(resultCode[k]) =>
            /\ \E i \in 1..Len(tokens) : /\ tokens[i].type = "jsxTagStart"
                                         /\ tokens[i].start = resultCode[k].elem
            /\ resultCode[k].text[4] = ", lineNumber: "
            /\ resultCode[k].text[5] = ToString(LineOfOffset(resultCode[k].elem))
    /\ NonDecreasingCalls(Len(lineCalls))
    /\ (status = "done" /\ WellFormedInput) =>
          \A e \in OpenTokens :
             Len(SelectSeq(DevPropsEmissions, LAMBDA r : r.elem = tokens[e].start)) = 1

\* C4 witness: a finished pass over an element whose attribute expression
\* holds another element that starts on a later line.
C4_Witness ==
    /\ status = "done"
    /\ WellFormedInput
    /\ \E e \in OpenTokens : \E c \in OpenTokens :
          /\ e < c /\ c < ElementEnd(e)
          /\ tokens[c - 1].role = "attrBraceL"
          /\ LineOfOffset(tokens[c].start) > LineOfOffset(tokens[e].start)
          /\ Len(DevPropsEmissions) = 2

\* C5: the file-name identifier is claimed from the name manager at most
\* once, when the props of the first element are processed (the first
\* getLineNumberForIndex call of the pass); every debug props emission
\* names that identifier; the prefix code of a finished pass is empty when no
\* element was transformed and else the one const declaration binding the
\* identifier to the JSON string of the path ("" when the path is null).
C5_FileNameClaimedOnce ==
    /\ Len(claimCalls) <= 1
    /\ (claimCalls = <<>>) <=> (lineCalls = <<>>)
    /\ (claimCalls = <<>>) <=> (filenameVarName = Null)
    /\ DevPropsEmissions # <<>> => claimCalls # <<>>
    /\ claimCalls # <<>> =>
          /\ filenameVarName = claimCalls[1]
          /\ \A k \in 1..Len(DevPropsEmissions) :
                DevPropsEmissions[k].text[3] = claimCalls[1]
    /\ status = "done" =>
          /\ output.produced
          /\ output.prefix =
                IF claimCalls = <<>> THEN <<>>
                ELSE <<"const ", claimCalls[1], " = ">>
                     \o JSONStringify(IF filePath = <<Null>> THEN <<>> ELSE filePath)
                     \o <<";">>

\* C5 witness: a finished pass that transformed two elements of a file with a
\* known path, the seed name being taken already.
C5_Witness ==
    /\ status = "done"
    /\ Len(DevPropsEmissions) >= 2
    /\ filePath # <<Null>>
    /\ claimCalls = <<"_jsxFileName2">>
    /\ output.prefix # <<>>

\* the emissions of p that consume the first token of an attribute of the
\* set attrs, and the separators
AttributeMarks(p, attrs) ==
    SelectSeq(p, LAMBDA r : \/ r.text = <<",">>
                            \/ r.op # "append" /\ (r.index + 1) \in attrs)

\* C6: when a well-formed file is done, the processProps emissions of every
\* element open exactly one object literal with ", {" and end with the
\* debug props followed by "}"; the debug props occur once, in the last
\* emission; an element without attributes has that one emission alone; and
\* the n attributes are consumed in source order, each followed by exactly
\* one "," before the next attribute or the debug props.
C6_OneObjectLiteralDebugPropsLast ==
    (status = "done" /\ WellFormedInput) =>
        \A e \in OpenTokens :
            LET p == EmissionsOf("processProps", tokens[e].start)
                attrs == AttributesOf(e)
                n == Cardinality(attrs)
                marks == AttributeMarks(p, attrs)
                last == p[Len(p)]
            IN /\ p # <<>>
               /\ p[1].op = "append" /\ p[1].text[1] = ", {"
               /\ \A k \in 2..Len(p) : p[k].text = <<>> \/ p[k].text[1] # ", {"
               /\ IsDevPropsEmission(last)
               /\ last.op = "append"
               /\ SubSeq(last.text, Len(last.text) - 1, Len(last.text)) = <<"}", "}">>
               /\ \A k \in 1..(Len(p) - 1) : ~IsDevPropsEmission(p[k])
               /\ (n = 0) <=> (Len(p) = 1)
               /\ Len(marks) = 2 * n
               /\ \A m \in 1..n :
                     /\ marks[2 * m - 1].op # "append"
                     /\ (marks[2 * m - 1].index + 1) \in attrs
                     /\ m > 1 => marks[2 * m - 3].index < marks[2 * m - 1].index
                     /\ marks[2 * m].text = <<",">>

\* C6 witness: a finished pass over an element with two attributes, one of
\* them a spread.
C6_Witness ==
    /\ status = "done"
    /\ WellFormedInput
    /\ \E e \in OpenTokens :
          /\ Cardinality(AttributesOf(e)) = 2
          /\ \E j \in AttributesOf(e) : tokens[j].role = "spreadL"

\* C7 as stated: every attribute name is emitted as a quoted string key when
\* it contains a hyphen and as the bare name when it does not, whichever
\* form the attribute has.
C7_HyphenatedNamesQuoted ==
    WellFormedInput =>
        \A k \in 1..Len(resultCode) :
            LET r == resultCode[k]
            IN (r.op # "append" /\ tokens[r.index + 1].role = "attrName") =>
                  LET v == tokens[r.index + 1].value
                  IN r.text = IF Includes(v, "-") THEN <<"'">> \o v \o <<"'">> ELSE v

LowerCaseLetters ==
    {"a", "b", "c", "d", "e", "f", "g", "h", "i", "j", "k", "l", "m",
     "n", "o", "p", "q", "r", "s", "t", "u", "v", "w", "x", "y", "z"}

\* C8 as stated: the first token of a tag name is rewritten as a quoted
\* string exactly when the name is that one token and its first character is
\* a lower-case letter; otherwise the token is copied unquoted.
C8_QuotedIffSingleLowerCaseName ==
    WellFormedInput =>
        \A k \in 1..Len(resultCode) :
            LET r == resultCode[k]
                j == r.index + 1
            IN (/\ r.op # "append"
                /\ tokens[j].role = "tagName"
                /\ tokens[j - 1].role \in {"open", "childOpen"}) =>
                  LET v == tokens[j].value
                      single == tokens[j + 1].role # "tagName"
                  IN IF single /\ v[1] \in LowerCaseLetters
                     THEN r.op = "replace" /\ r.text = <<"'">> \o v \o <<"'">>
                     ELSE r.op = "copy" /\ r.text = v

\* the emissions of p whose text starts with the argument separator ", "
ArgumentEmissions(p) == SelectSeq(p, LAMBDA r : r.text # <<>> /\ r.text[1] = ", ")

\* C9: when a well-formed file is done, both braces of every empty
\* interpolation were replaced by empty text; the opening brace of every
\* other interpolation was replaced by ", " and its closing brace by empty
\* text; every child element got one ", " appended in front of it; and for
\* every element the number of emissions of its processChildren that start
\* with ", " is the number of its non-empty interpolations, child elements
\* and text children with a non-empty literal.
C9_OneSeparatorPerArgument ==
    (status = "done" /\ WellFormedInput) =>
        /\ \A k \in 1..Len(resultCode) :
              LET r == resultCode[k]
                  role == tokens[r.index + 1].role
              IN /\ (r.op = "replace" /\ role \in {"emptyL", "emptyR", "interpR"})
                       => r.text = <<>>
                 /\ (r.op = "replace" /\ role = "interpL") => r.text = <<", ">>
        /\ \A j \in 1..Len(tokens) :
              tokens[j].role \in {"emptyL", "emptyR", "interpL", "interpR"} =>
                  \E k \in 1..Len(resultCode) :
                      /\ resultCode[k].op = "replace"
                      /\ resultCode[k].index + 1 = j
                      /\ resultCode[k].fn = "processChildren"
        /\ \A e \in OpenTokens :
              LET p == EmissionsOf("processChildren", tokens[e].start)
              IN /\ Len(ArgumentEmissions(p)) = Cardinality(ChildArgumentsOf(e))
                 /\ \A c \in OpenTokens :
                       (tokens[c].role = "childOpen" /\ ParentElement(c) = e) =>
                          Len(SelectSeq(p, LAMBDA r : /\ r.op = "append"
                                                      /\ r.index + 1 = c
                                                      /\ r.text = <<", ">>)) = 1

\* C9 witness: a finished pass over an element whose children are an empty
\* interpolation, which makes no argument, and one child that makes one.
C9_Witness ==
    /\ status = "done"
    /\ WellFormedInput
    /\ \E e \in OpenTokens :
          /\ Cardinality(ChildArgumentsOf(e)) = 1
          /\ Len(ArgumentEmissions(EmissionsOf("processChildren", tokens[e].start))) = 1
          /\ \E j \in 1..Len(tokens) :
                tokens[j].role = "emptyL" /\ InnermostElement(j) = e

\* the two fatal conditions
FatalTerminator ==
    /\ status = "running" /\ stack # <<>>
    /\ Top.fn = "processJSXTag" /\ Top.pc = "terminator"
    /\ ~MatchesAtIndex(tokenIndex, <<"/", "jsxTagEnd">>)
    /\ ~MatchesAtIndex(tokenIndex, <<"jsxTagEnd">>)
FatalChild ==
    /\ status = "running" /\ stack # <<>>
    /\ Top.fn = "processChildren" /\ Top.pc = "loop"
    /\ ~MatchesAtIndex(tokenIndex, <<"{">>)
    /\ ~MatchesAtIndex(tokenIndex, <<"jsxTagStart">>)
    /\ ~MatchesAtIndex(tokenIndex, <<"jsxText">>)

\* C10: from a state where a fatal condition holds the next step is the
\* failure: every frame is left, no token is consumed, no text emitted and
\* no output produced; and once the pass has failed, the cursor, the emitted
\* text and the (absent) output never change again.
C10_FatalErrorAborts ==
    [][/\ (FatalTerminator \/ FatalChild) =>
             /\ status' = "failed"
             /\ stack' = <<>>
             /\ error' = IF FatalTerminator
                         THEN "Expected either /> or > at the end of the tag."
                         ELSE "Unexpected token when processing JSX children."
             /\ tokenIndex' = tokenIndex
             /\ resultCode' = resultCode
             /\ output' = NoOutput
       /\ status = "failed" =>
             /\ status' = "failed"
             /\ tokenIndex' = tokenIndex
             /\ resultCode' = resultCode
             /\ output' = NoOutput
       /\ status' = "failed" => output' = NoOutput]_vars

\* C10 witness: the pass has failed on a child token with text already
\* emitted for two elements and tokens left unconsumed.
C10_Witness ==
    /\ status = "failed"
    /\ error = "Unexpected token when processing JSX children."
    /\ stack = <<>>
    /\ output = NoOutput
    /\ tokenIndex < Len(tokens)
    /\ Len(SelectSeq(resultCode, LAMBDA r : r.text # <<>>
                                           /\ r.text[Len(r.text)] = ".createElement(")) >= 2

\* the element (position of its tag-open marker) that frame f works for
ElementOfFrame(f) == CHOOSE e \in OpenTokens : tokens[e].start = f.elem

\* C11: on a well-formed file no error is raised; processJSXTag starts with
\* the cursor on a tag-open marker; while it works for an element the token
\* at the cursor is a token of that element; and
\* the step that returns from processJSXTag leaves the cursor exactly one
\* past the tag-close marker that ends that element. A finished pass has
\* consumed every token.
C11_TagEndsPastOwnCloseMarker ==
    /\ [](WellFormedInput =>
            /\ status # "failed"
            /\ status = "done" => tokenIndex = Len(tokens)
            /\ \A k \in 1..Len(stack) :
                  stack[k].fn = "processJSXTag" =>
                      IF stack[k].pc = "start"
                      THEN (tokenIndex + 1) \in OpenTokens
                      ELSE LET e == ElementOfFrame(stack[k])
                           IN e <= tokenIndex + 1 /\ tokenIndex + 1 <= ElementEnd(e))
    /\ [][(/\ WellFormedInput
           /\ stack # <<>>
           /\ Top.fn = "processJSXTag"
           /\ Len(stack') < Len(stack))
          => /\ status' = "running"
             /\ stack' = Popped
             /\ tokenIndex' = ElementEnd(ElementOfFrame(Top))]_vars

\* C11 witness: processJSXTag has just returned for a child element that has
\* a closing tag of its own; the cursor is one past that tag's close marker,
\* on a token of the enclosing element.
C11_Witness ==
    /\ WellFormedInput
    /\ At("processChildren", "loop")
    /\ \E c \in OpenTokens :
          /\ tokens[c].role = "childOpen"
          /\ ElementEnd(c) = tokenIndex
          /\ tokens[ElementEnd(c) - 1].role # "selfSlash"
          /\ tokens[ParentElement(c)].start = Top.elem
          /\ resultCode[Len(resultCode)].text = <<")">>

\* the opening text of a factory call, and the emissions that open or close one
CallOpening == <<IF reactName = Null THEN "React" ELSE reactName, ".createElement(">>
IsCallOpening(r) == r.text = CallOpening
IsCallClosing(r) == r.fn = "processJSXTag" /\ r.text = <<")">>
\* the emissions that consumed the token at position j
ConsumersOf(j) == SelectSeq(resultCode, LAMBDA r : r.op # "append" /\ r.index + 1 = j)

\* C12: on a well-formed file the only emission that consumes a tag-open
\* marker of an element is the opening text of the factory call, the only
\* one that consumes the close marker ending an element is ")", and the
\* other tokens of the tags' punctuation (the open tag's ">", the "/" of a
\* self-closing tag, all tokens of a closing tag before its ">") are replaced
\* by empty text; openings and closings are emitted nowhere else; up to and
\* including every closing there are at least as many openings as closings;
\* and a finished pass has one opening and one closing for every
\* element, the opening first.
C12_OneFactoryCallPerElement ==
    WellFormedInput =>
        /\ \A k \in 1..Len(resultCode) :
              LET r == resultCode[k]
                  role == tokens[r.index + 1].role
              IN /\ IsCallOpening(r) <=>
                       (r.op = "replace" /\ role \in {"open", "childOpen"})
                 /\ IsCallClosing(r) <=> (r.op = "replace" /\ role = "close")
                 /\ (r.op # "append" /\ role \in {"openEnd", "selfSlash", "closing"})
                       => (r.op = "replace" /\ r.text = <<>>)
                 /\ IsCallClosing(r) =>
                       Len(SelectSeq(SubSeq(resultCode, 1, k), IsCallOpening))
                           >= Len(SelectSeq(SubSeq(resultCode, 1, k), IsCallClosing))
        /\ status = "done" =>
              /\ \A e \in OpenTokens :
                    /\ Len(ConsumersOf(e)) = 1
                    /\ Len(ConsumersOf(ElementEnd(e))) = 1
              /\ Len(SelectSeq(resultCode, IsCallOpening)) = Cardinality(OpenTokens)
              /\ Len(SelectSeq(resultCode, IsCallClosing)) = Cardinality(OpenTokens)

\* C12 witness: a finished pass over an element with a closing tag that holds
\* a child element, the factory being an imported binding.
C12_Witness ==
    /\ status = "done"
    /\ WellFormedInput
    /\ reactName # Null
    /\ \E e, c \in OpenTokens :
          /\ ParentElement(c) = e
          /\ tokens[ElementEnd(e) - 1].role = "closing"
    /\ Len(SelectSeq(resultCode, IsCallOpening)) = 2
    /\ Len(SelectSeq(resultCode, IsCallClosing)) = 2

\* The scan of the text formatter as the specification words it, started
\* with atLineStart = atStart: the emitted text, the pending inline
\* whitespace, atLineStart, and whether content was seen.
DocScanStep(st, c) ==
    IF IsInlineWhitespace(c)
    THEN IF st.atLineStart THEN st
         ELSE [st EXCEPT !.pendingInlineWhitespace = @ \o <<c>>]
    ELSE IF c = Newline
    THEN [st EXCEPT !.pendingInlineWhitespace = <<>>, !.atLineStart = TRUE]
    ELSE [emitted |-> st.emitted
                      \o (IF st.seenContent /\ st.atLineStart THEN <<Space>> ELSE <<>>)
                      \o st.pendingInlineWhitespace \o <<c>>,
          pendingInlineWhitespace |-> <<>>,
          atLineStart |-> FALSE,
          seenContent |-> TRUE]

RECURSIVE DocScanFrom(_, _)
DocScanFrom(st, s) ==
    IF s = <<>>
    THEN IF st.atLineStart THEN st.emitted
         ELSE st.emitted \o st.pendingInlineWhitespace
    ELSE DocScanFrom(DocScanStep(st, Head(s)), Tail(s))

DocScan(atStart, s) ==
    DocScanFrom([emitted |-> <<>>, pendingInlineWhitespace |-> <<>>,
                 atLineStart |-> atStart, seenContent |-> FALSE], s)

\* The same text by lines: the lines of s between its newlines
RECURSIVE LinesOf(_)
LinesOf(s) ==
    IF \A k \in 1..Len(s) : s[k] # Newline THEN <<s>>
    ELSE LET n == CHOOSE k \in 1..Len(s) :
                      s[k] = Newline /\ \A m \in 1..(k - 1) : s[m] # Newline
         IN <<SubSeq(s, 1, n - 1)>> \o LinesOf(SubSeq(s, n + 1, Len(s)))

TrimLeft(s) == DropN(s, Len(TakeWhileIn(s, {Space, Tab})))
Reverse(s) == [k \in 1..Len(s) |-> s[Len(s) + 1 - k]]
TrimRight(s) == Reverse(TrimLeft(Reverse(s)))

RECURSIVE JoinWithSpace(_)
JoinWithSpace(ls) ==
    IF ls = <<>> THEN <<>>
    ELSE IF Len(ls) = 1 THEN ls[1]
    ELSE ls[1] \o <<Space>> \o JoinWithSpace(Tail(ls))

\* every line but the first loses its leading spaces and tabs, every line
\* but the last its trailing ones; the lines left non-empty are joined by
\* one space
JoinedLines(s) ==
    LET ls == LinesOf(s)
        trimmed == [k \in 1..Len(ls) |->
                       LET l1 == IF k > 1 THEN TrimLeft(ls[k]) ELSE ls[k]
                       IN IF k < Len(ls) THEN TrimRight(l1) ELSE l1]
    IN JoinWithSpace(SelectSeq(trimmed, LAMBDA l : l # <<>>))

\* C13 as stated: the literal is the JSON string of the text emitted by the
\* scan that starts with atLineStart true, so that spaces and tabs before the
\* first content character of the text are discarded.
C13_ScanStartsAtLineStart ==
    textFn = "formatJSXTextLiteral" => textResult = JSONStringify(DocScan(TRUE, text))

\* C13 amended: the literal is the JSON string of the text emitted by the
\* scan that starts with atLineStart false and sets it after each newline,
\* so that spaces and tabs on the first line of the text are kept; that text
\* is the lines of the input, trimmed at the line breaks only, the non-empty
\* ones joined by one space.
C13_ScanStartsInsideFirstLine ==
    textFn = "formatJSXTextLiteral" =>
        /\ textResult = JSONStringify(DocScan(FALSE, text))
        /\ textResult = JSONStringify(JoinedLines(text))

\* C13 witness: the formatter has run on a text that starts with a space
\* before its first content character and has content on a second line,
\* where the two scans differ.
C13_Witness ==
    /\ textFn = "formatJSXTextLiteral"
    /\ text = <<Space, "a", Tab, Newline, Tab, "a">>
    /\ textResult = <<DQuote, Space, "a", Space, "a", DQuote>>
    /\ DocScan(TRUE, text) # DocScan(FALSE, text)

\* the passthrough of a text: its newlines, then as many spaces as there are
\* after its last newline
Passthrough(v) ==
    Repeat(Newline, Count(v, {Newline})) \o Repeat(Space, Count(AfterLastNewline(v), {Space}))

\* C14: on a well-formed file every text child is consumed by one
\* replacement; the replacement starts with ", " exactly when the joined
\* lines of the text are non-empty; a text of spaces, tabs and newlines with
\* at least one newline is replaced by its passthrough alone; a text with a
\* content character is replaced by ", ", the literal of its joined lines
\* and its passthrough.
C14_TextChildArgumentIffLiteralNonEmpty ==
        \A k \in 1..Len(resultCode) :
            LET r == resultCode[k]
                v == tokens[r.index + 1].value
            IN (r.op # "append" /\ tokens[r.index + 1].role = "text" /\ WellFormedInput) =>
                  /\ r.op = "replace"
                  /\ r.fn = "processChildren"
                  /\ (r.text # <<>> /\ r.text[1] = ", ") <=> (JoinedLines(v) # <<>>)
                  /\ (Count(v, {Space, Tab, Newline}) = Len(v) /\ Count(v, {Newline}) >= 1)
                        => r.text = Passthrough(v)
                  /\ Count(v, {Space, Tab, Newline}) < Len(v)
                        => r.text = <<", ">> \o JSONStringify(JoinedLines(v))
                                      \o Passthrough(v)

\* C14 witness: a text child of spaces and newlines only, two newlines among
\* them, was replaced by its passthrough alone.
C14_Witness ==
    /\ WellFormedInput
    /\ \E k \in 1..Len(resultCode) :
          LET r == resultCode[k]
              v == tokens[r.index + 1].value
          IN /\ r.op = "replace"
             /\ tokens[r.index + 1].role = "text"
             /\ v = <<Space, Newline, Newline>>
             /\ r.text = <<Newline, Newline>>

RECURSIVE NewlineRunsToSpaces(_, _)
\* s from position k on, every newline that is followed by a space, tab or
\* newline replaced, together with all the spaces, tabs and newlines that
\* follow it, by one space
NewlineRunsToSpaces(s, k) ==
    IF k > Len(s) THEN <<>>
    ELSE IF s[k] = Newline /\ k < Len(s) /\ s[k + 1] \in {Space, Tab, Newline}
    THEN LET m == Max({j \in (k + 1)..Len(s) :
                          \A i \in (k + 1)..j : s[i] \in {Space, Tab, Newline}})
         IN <<Space>> \o NewlineRunsToSpaces(s, m + 1)
    ELSE <<s[k]>> \o NewlineRunsToSpaces(s, k + 1)

IsStringValueEmission(r) == r.op # "append" /\ tokens[r.index + 1].role = "attrString"

\* C15 as stated: the text that replaces the value token of a string
\* attribute is the string literal of the value with its newline runs
\* replaced by spaces, and nothing more.
C15_StringValueLiteralOnly ==
        \A k \in 1..Len(resultCode) :
            LET r == resultCode[k]
                v == tokens[r.index + 1].value
            IN (IsStringValueEmission(r) /\ WellFormedInput) =>
                  /\ r.op = "replace"
                  /\ r.text = JSONStringify(NewlineRunsToSpaces(v, 1))

\* C15 amended: the text that replaces the value token of a string attribute
\* is the string literal of the value with its newline runs replaced by
\* spaces, followed by the passthrough of the value.
C15_StringValueLiteralThenPassthrough ==
        \A k \in 1..Len(resultCode) :
            LET r == resultCode[k]
                v == tokens[r.index + 1].value
            IN (IsStringValueEmission(r) /\ WellFormedInput) =>
                  /\ r.op = "replace"
                  /\ r.fn = "processProps"
                  /\ r.text = JSONStringify(NewlineRunsToSpaces(v, 1)) \o Passthrough(v)

\* C15 witness: a string value with a newline directly before a content
\* character and a newline followed by a space was replaced by its literal,
\* the first newline kept (escaped), and a passthrough of two newlines.
C15_Witness ==
    /\ WellFormedInput
    /\ \E k \in 1..Len(resultCode) :
          LET r == resultCode[k]
              v == tokens[r.index + 1].value
          IN /\ IsStringValueEmission(r)
             /\ v = <<Newline, "a", Newline>> \/ v = <<Newline, "a", Newline, Space>>
             /\ Count(r.text, {Newline}) = 2
             /\ SubSeq(r.text, 1, 4) = <<DQuote, Backslash, "n", "a">>

\* the emissions of rc that consumed a token
Consuming(rc) == SelectSeq(rc, LAMBDA r : r.op # "append")

\* C16: the emissions that consumed a token are as many as the cursor's
\* value and the k-th of them consumed token k - 1, so that every token
\* before the cursor was consumed exactly once, in increasing order; every
\* appended text was appended with the cursor where the tokens consumed
\* before it left it; the scan of processTagIntro looks at the cursor or
\* after it; and no step decreases the cursor or takes emitted text back: a
\* step moves the cursor by the number of tokens its emissions consumed, a
\* step that only appends leaves it where it is.
C16_EachTokenConsumedOnceInOrder ==
    /\ [](/\ Len(Consuming(resultCode)) = tokenIndex
          /\ tokenIndex <= Len(tokens)
          /\ \A k \in 1..Len(resultCode) :
                LET r == resultCode[k]
                    before == Len(Consuming(SubSeq(resultCode, 1, k - 1)))
                IN r.index = before
          /\ (stack # <<>> /\ Top.fn = "processTagIntro" /\ Top.pc = "scan")
                => Top.introEnd - 1 >= tokenIndex)
    /\ [][/\ tokenIndex' >= tokenIndex
          /\ Len(resultCode') >= Len(resultCode)
          /\ SubSeq(resultCode', 1, Len(resultCode)) = resultCode
          /\ tokenIndex' - tokenIndex =
                Len(Consuming(SubSeq(resultCode', Len(resultCode) + 1, Len(resultCode'))))]_vars

\* C16 witness: a finished pass over a well-formed element with a child
\* element: all tokens consumed, text appended in between.
C16_Witness ==
    /\ status = "done"
    /\ WellFormedInput
    /\ tokenIndex = Len(tokens)
    /\ \E c \in OpenTokens : tokens[c].role = "childOpen"
    /\ \E k \in 1..Len(resultCode) :
          resultCode[k].op = "append" /\ resultCode[k].index < tokenIndex - 2
    /\ \A j \in 1..Len(tokens) : Len(ConsumersOf(j)) = 1

\* the largest offset among the first n logged calls (0 when n = 0)
LargestOffset(n) == Max({0} \cup {lineCalls[i].index : i \in 1..n})

\* C17: with calls in any order, lastIndex is within the code and is the
\* largest offset asked for so far (the code length when that is past the
\* end); lastLineNumber is 1 + the newlines of code[0..lastIndex); every
\* call returned the line of the largest offset asked for up to and
\* including it; lastIndex never decreases; and a call with an offset below
\* lastIndex changes neither field and returns the lastLineNumber it found.
C17_LineCursorOnlyMovesForward ==
    /\ [](/\ lastIndex <= Len(code)
          /\ lastIndex = (IF LargestOffset(Len(lineCalls)) < Len(code)
                          THEN LargestOffset(Len(lineCalls)) ELSE Len(code))
          /\ lastLineNumber = LineOfOffset(lastIndex)
          /\ \A n \in 1..Len(lineCalls) :
                lineCalls[n].result = LineOfOffset(LargestOffset(n)))
    /\ [][/\ lastIndex' >= lastIndex
          /\ lastLineNumber' >= lastLineNumber
          /\ (/\ Len(lineCalls') = Len(lineCalls) + 1
              /\ lineCalls'[Len(lineCalls')].index < lastIndex)
                => /\ lastIndex' = lastIndex
                   /\ lastLineNumber' = lastLineNumber
                   /\ lineCalls'[Len(lineCalls')].result = lastLineNumber]_vars

\* C17 witness: a call with an offset below lastIndex returned the line of
\* the earlier, larger offset, which is not the line of the offset asked for.
C17_Witness ==
    /\ Len(lineCalls) = 2
    /\ lineCalls[2].index < lineCalls[1].index
    /\ lineCalls[1].index <= Len(code)
    /\ lineCalls[2].result = lineCalls[1].result
    /\ lineCalls[2].result # LineOfOffset(lineCalls[2].index)
    /\ lastIndex = lineCalls[1].index

\* C18 as stated, the part about the two loops: the index that the scan of
\* processTagIntro reads, and the token that the loop over the closing tag
\* discards, is that of a token of the buffer.
C18_LoopsStayInsideBuffer ==
    /\ \A k \in 1..Len(stack) :
          (stack[k].fn = "processTagIntro" /\ stack[k].pc = "scan")
              => stack[k].introEnd < Len(tokens)
    /\ At("processJSXTag", "closing") => tokenIndex < Len(tokens)

\* the functions of the JSX transformer
JSXFunctions == {"processJSXTag", "processTagIntro", "processProps", "processChildren"}

RECURSIVE NewlinesEmitted(_, _)
\* the newlines of the output made by the first k emissions of rc:
\* those of the whitespace copied in front and those of the emitted text
NewlinesEmitted(rc, k) ==
    IF k = 0 THEN 0
    ELSE Count(rc[k].ws, {Newline}) + Count(rc[k].text, {Newline})
         + NewlinesEmitted(rc, k - 1)

RECURSIVE LinesKept(_, _, _)
\* whether each of the emissions k, k + 1, ... of rc that consumed a token
\* puts it after as many newlines as the source has before it, n being the
\* newlines emitted by the emissions before the k-th
LinesKept(rc, k, n) ==
    IF k > Len(rc) THEN TRUE
    ELSE LET r == rc[k]
             atToken == n + Count(r.ws, {Newline})
         IN /\ r.op # "append" => atToken = LineOfOffset(tokens[r.index + 1].start) - 1
            /\ LinesKept(rc, k + 1, atToken + Count(r.text, {Newline}))

\* C19: the text that replaces a text child or a string attribute value ends
\* with the passthrough of the token's value, has no newline before it and
\* so has as many newlines as the value; every other text the JSX
\* transformer emits, replacing or appending, has no newline; hence in the
\* output of a finished pass every token starts after as many newlines as
\* in the source, and the output has as many newlines as the source.
C19_ReplacementsKeepLineStructure ==
    WellFormedInput =>
        /\ \A k \in 1..Len(resultCode) :
              LET r == resultCode[k]
                  tok == tokens[r.index + 1]
                  n == Len(r.text) - Len(Passthrough(tok.value))
              IN /\ (r.op = "replace" /\ tok.role \in {"text", "attrString"}) =>
                       /\ n >= 0
                       /\ SubSeq(r.text, n + 1, Len(r.text)) = Passthrough(tok.value)
                       /\ Count(SubSeq(r.text, 1, n), {Newline}) = 0
                       /\ Count(r.text, {Newline}) = Count(tok.value, {Newline})
                 /\ (/\ r.fn \in JSXFunctions
                     /\ r.op \in {"replace", "append"}
                     /\ ~(r.op = "replace" /\ tok.role \in {"text", "attrString"}))
                       => Count(r.text, {Newline}) = 0
        /\ status = "done" =>
              /\ LinesKept(resultCode, 1, 0)
              /\ NewlinesEmitted(resultCode, Len(resultCode)) = Count(code, {Newline})

\* C19 witness: a finished pass that replaced a string attribute value and a
\* text child, each holding a newline, and consumed a token after them.
C19_Witness ==
    /\ status = "done"
    /\ WellFormedInput
    /\ \E j, k \in 1..Len(resultCode) :
          /\ j < k /\ k < Len(resultCode)
          /\ resultCode[j].op = "replace" /\ resultCode[k].op = "replace"
          /\ tokens[resultCode[j].index + 1].role = "attrString"
          /\ tokens[resultCode[k].index + 1].role = "text"
          /\ Count(resultCode[j].text, {Newline}) >= 1
          /\ Count(resultCode[k].text, {Newline}) >= 1

====
